---- MODULE Spec2Model ----
(***************************************************************************)
(* waybar-weather: the logind sleep/resume monitor                         *)
(* (internal/service/sleep.go) and the geolocation provider streams        *)
(* (internal/geobus/provider/...).                                         *)
(*                                                                         *)
(* Time in the monitor is counted in ticks of 1/TicksPerSecond seconds;    *)
(* time.Now().Unix() is StartUnix + now \div TicksPerSecond.               *)
(***************************************************************************)
EXTENDS Integers, Sequences, FiniteSets, TLC

\* ---------------------------------------------------------------- bounds
TicksPerSecond == 2
MaxClock == 22
MaxSignals == 2
MaxConns == 2
StartUnix == 50
MaxPeriods == 2
MaxLines == 5
FileQuantum == 1
IPQuantum == 15

\* ------------------------------------------------- sleep.go constants
busReconnectDelay == 5 * TicksPerSecond
subscribeRetryDelay == 10 * TicksPerSecond
reconnectDelay == 2 * TicksPerSecond
debounceWindow == 2
networkWakeupDelay == 5 * TicksPerSecond
signalBufferSize == 8

\* ------------------------------------------------ provider constants
\* geoip.go: accuracies in metres; confidences are counted in hundredths
AccuracyCountry == 300000
AccuracyRegion == 100000
AccuracyCity == 15000
AccuracyZip == 3000
AccuarcyUnknown == 1000000
\* periods and TTLs, in minutes
FilePeriod == 2
FileTTL == 15
GeoIPPeriod == 30
GeoIPTTL == 60
ICHNAEAPeriod == 30
ICHNAEATTL == 60

VARIABLES
    now,             \* monitor clock, in ticks
    cancelled,       \* ctx.Done() of the monitor's context is closed
    pc,              \* position of monitorSleepResume
    wakeAt,          \* expiry of the timer or sleep the monitor waits on
    lastResumeUnix,  \* var lastResumeUnix int64
    conns,           \* the *dbus.Conn opened so far that are still of
                     \* interest, in order; the last one is conn
    nSubs,           \* subscriptions (conn.Signal) made so far
    sigCh,           \* buffered signal channel of the current subscription
    sigClosed,       \* the bus closed sigCh
    nSignals,        \* signals delivered so far
    cur,             \* the resume event whose grace delay is running
    refreshes        \* go s.fetchWeather(ctx) calls started so far

VARIABLES
    prov,            \* the provider whose LookupStream runs
    key,             \* the key handed to LookupStream
    minute,          \* stream clock, in minutes
    sctx,            \* ctx.Done() of the stream's context is closed
    spc,             \* position of the LookupStream goroutine
    swake,           \* expiry of the stream's timer or sleep
    state,           \* state := geobus.GeolocationState{}
    out,             \* the Result the goroutine is sending on out
    outClosed,       \* close(out) has run
    received,        \* the Result the consumer received last
    readLog          \* outcome of every read so far

VARIABLES
    apiResp,         \* the API response handed to locate
    located          \* what locate returned for it

VARIABLES
    file,            \* the file at p.path
    fileRead         \* what readFile returned for it

VARIABLES
    estimate,        \* the Hub's current estimate of the key, or unknown
    published,       \* what the Hub republished last to the subscribers
    sweepDue,        \* the TTL-sweep timer has fired and is not handled yet
    merged,          \* the Result of the stream the Hub has merged last
    readout,         \* what CurrentEstimate returned last: unknown, or
                     \* a Result that was fresh or stale at that time
    inbox,           \* two Results about to arrive at the Hub, in order
    fed              \* how many of them have arrived

monitorVars == <<now, cancelled, pc, wakeAt, lastResumeUnix, conns, nSubs,
                 sigCh, sigClosed, nSignals, cur, refreshes>>

streamVars == <<prov, key, minute, sctx, spc, swake, state, out, outClosed,
                received, readLog>>

locateVars == <<apiResp, located>>

parseVars == <<file, fileRead>>

hubVars == <<estimate, published, sweepDue, merged, readout, inbox, fed>>

vars == <<monitorVars, streamVars, locateVars, parseVars, hubVars>>

\* what a step of the monitor, of a stream, of locate leaves alone
notMonitor == <<streamVars, locateVars, parseVars, hubVars>>
notStream == <<monitorVars, locateVars, parseVars, hubVars>>
notLocate == <<monitorVars, streamVars, parseVars, hubVars>>
notParse == <<monitorVars, streamVars, locateVars, hubVars>>
notHub == <<monitorVars, locateVars, parseVars>>

\* ------------------------------------------------------------- helpers
NoEvent == [body |-> <<>>, arrived |-> -1, accepted |-> -1, sub |-> 0]

\* time.Now().Unix()
Unix(t) == StartUnix + (t \div TicksPerSecond)

\* A signal body ([]interface{}): its elements are the booleans "true" and
\* "false", or a value of another type ("str").
Bodies == { <<"true">>, <<"false">>, <<>>, <<"false", "false">>, <<"str">> }

IsBool(v) == v \in {"true", "false"}

\* conn of monitorSleepResume: the connection opened last
curConn == Len(conns)

\* A connection that is closed and whose cleanup goroutine has ended is
\* settled: nothing can happen to it any more. Settled connections other
\* than conn are dropped from the record.
Settled(c) == c.closed /\ c.closer = "done"

Forget(cs) ==
    IF cs = <<>> THEN cs
    ELSE SelectSeq(SubSeq(cs, 1, Len(cs) - 1), LAMBDA c : ~Settled(c))
         \o <<cs[Len(cs)]>>

\* a conn.Close() that is left out
CloseConn_Skipped(c) == Forget(conns)

\* conn.Close()
CloseConn(c) == Forget([conns EXCEPT ![c].closed = TRUE])

\* ------------------------------------------------------ the environment
\* cancel() of the context handed to monitorSleepResume
Cancel ==
    /\ ~cancelled
    /\ cancelled' = TRUE
    /\ UNCHANGED <<now, pc, wakeAt, lastResumeUnix, conns, nSubs, sigCh,
                   sigClosed, nSignals, cur, refreshes,
                   notMonitor>>

\* The arrival time of a signal, kept with it for the record. Only a resume
\* signal's arrival is read afterwards; the others carry 0.
ArrivalStamp(body) == IF body = <<"false">> THEN now ELSE 0

\* logind broadcasts PrepareForSleep; godbus puts it into the registered
\* channel (between conn.Signal and conn.RemoveSignal).
DeliverSignal(body) ==
    /\ pc \in {"loop", "grace"}
    /\ ~sigClosed
    /\ nSignals < MaxSignals
    /\ Len(sigCh) < signalBufferSize
    /\ sigCh' = Append(sigCh, [body |-> body, at |-> ArrivalStamp(body)])
    /\ nSignals' = nSignals + 1
    /\ UNCHANGED <<now, cancelled, pc, wakeAt, lastResumeUnix, conns, nSubs,
                   sigClosed, cur, refreshes,
                   notMonitor>>

\* The bus connection drops: godbus closes the registered channels.
BusDrop ==
    /\ pc \in {"loop", "grace"}
    /\ ~sigClosed
    /\ sigClosed' = TRUE
    /\ UNCHANGED <<now, cancelled, pc, wakeAt, lastResumeUnix, conns, nSubs,
                   sigCh, nSignals, cur, refreshes,
                   notMonitor>>

\* ------------------------------------------------- connectToSystemBus
\* dbus.ConnectSystemBus() succeeds: the cleanup goroutine is started and
\* the connection returned.
ConnectSystemBusOK ==
    /\ pc = "connect"
    /\ Len(conns) < MaxConns
    /\ conns' = Forget(Append(conns, [closed |-> FALSE, closer |-> "waiting"]))
    /\ pc' = "setup"
    /\ UNCHANGED <<nSubs, now, cancelled, wakeAt, lastResumeUnix, sigCh,
                   sigClosed, nSignals, cur, refreshes,
                   notMonitor>>

\* dbus.ConnectSystemBus() fails: select on time.After / ctx.Done.
ConnectSystemBusErr ==
    /\ pc = "connect"
    /\ pc' = "connectWait"
    /\ wakeAt' = now + busReconnectDelay
    /\ UNCHANGED <<now, cancelled, lastResumeUnix, conns, nSubs, sigCh,
                   sigClosed, nSignals, cur, refreshes,
                   notMonitor>>

\* case <-time.After(busReconnectDelay): continue
ConnectRetry ==
    /\ pc = "connectWait"
    /\ now >= wakeAt
    /\ pc' = "connect"
    /\ wakeAt' = 0
    /\ UNCHANGED <<now, cancelled, lastResumeUnix, conns, nSubs, sigCh,
                   sigClosed, nSignals, cur, refreshes,
                   notMonitor>>

\* case <-ctx.Done(): return nil; monitorSleepResume returns (line 28)
ConnectCancelled ==
    /\ pc = "connectWait"
    /\ cancelled
    /\ pc' = "returned"
    /\ wakeAt' = 0
    /\ UNCHANGED <<now, cancelled, lastResumeUnix, conns, nSubs, sigCh,
                   sigClosed, nSignals, cur, refreshes,
                   notMonitor>>

\* go func() { <-ctx.Done(); conn.Close() }() of connection c
ConnCloser(c) ==
    /\ c \in DOMAIN conns
    /\ conns[c].closer = "waiting"
    /\ cancelled
    /\ conns' = Forget([conns EXCEPT ![c].closed = TRUE, ![c].closer = "done"])
    /\ sigClosed' = (sigClosed \/ (c = curConn /\ pc \in {"loop", "grace"}))
    /\ UNCHANGED <<nSubs, now, cancelled, pc, wakeAt, lastResumeUnix, sigCh,
                   nSignals, cur, refreshes,
                   notMonitor>>

\* ------------------------------------------------ setupSleepMonitoring
\* conn.AddMatchSignal succeeds; back in monitorSleepResume the channel is
\* made and registered with conn.Signal(sigCh).
AddMatchSignalOK ==
    /\ pc = "setup"
    /\ pc' = "loop"
    /\ sigCh' = <<>>
    /\ sigClosed' = FALSE
    /\ nSubs' = nSubs + 1
    /\ UNCHANGED <<now, cancelled, wakeAt, lastResumeUnix, conns,
                   nSignals, cur, refreshes,
                   notMonitor>>

\* setupSleepMonitoring that forgets conn.Close() on the error path
AddMatchSignalErr_NoClose ==
    /\ pc = "setup"
    /\ pc' = "setupWait"
    /\ wakeAt' = now + subscribeRetryDelay
    /\ UNCHANGED <<now, cancelled, lastResumeUnix, conns, nSubs, sigCh,
                   sigClosed, nSignals, cur, refreshes,
                   notMonitor>>

\* conn.AddMatchSignal fails: close the connection, then select on
\* time.After(subscribeRetryDelay) / ctx.Done.
AddMatchSignalErr ==
    /\ pc = "setup"
    /\ conns' = CloseConn(curConn)
    /\ pc' = "setupWait"
    /\ wakeAt' = now + subscribeRetryDelay
    /\ UNCHANGED <<nSubs, now, cancelled, lastResumeUnix, sigCh, sigClosed,
                   nSignals, cur, refreshes,
                   notMonitor>>

\* case <-time.After(subscribeRetryDelay): return false
SetupRetry ==
    /\ pc = "setupWait"
    /\ now >= wakeAt
    /\ pc' = "connect"
    /\ wakeAt' = 0
    /\ UNCHANGED <<now, cancelled, lastResumeUnix, conns, nSubs, sigCh,
                   sigClosed, nSignals, cur, refreshes,
                   notMonitor>>

\* case <-ctx.Done(): return false; the caller continues its loop
SetupCancelled ==
    /\ pc = "setupWait"
    /\ cancelled
    /\ pc' = "connect"
    /\ wakeAt' = 0
    /\ UNCHANGED <<now, cancelled, lastResumeUnix, conns, nSubs, sigCh,
                   sigClosed, nSignals, cur, refreshes,
                   notMonitor>>

\* -------------------------------------------------- handleSleepSignals
\* case <-ctx.Done(): return
SignalLoopCancelled ==
    /\ pc = "loop"
    /\ cancelled
    /\ pc' = "cleanup"
    /\ UNCHANGED <<now, cancelled, wakeAt, lastResumeUnix, conns, nSubs, sigCh,
                   sigClosed, nSignals, cur, refreshes,
                   notMonitor>>

\* case sgn, ok := <-sigCh with !ok: return
SignalChannelClosed ==
    /\ pc = "loop"
    /\ sigCh = <<>>
    /\ sigClosed
    /\ pc' = "cleanup"
    /\ UNCHANGED <<now, cancelled, wakeAt, lastResumeUnix, conns, nSubs, sigCh,
                   sigClosed, nSignals, cur, refreshes,
                   notMonitor>>

\* processSleepSignal without the len(sgn.Body) != 1 test
IsResume_NoLenCheck(body) ==
    Len(body) >= 1 /\ IsBool(body[1]) /\ body[1] # "true"

\* processSleepSignal: the body is exactly one bool, and it is false.
IsResume(body) == Len(body) = 1 /\ IsBool(body[1]) /\ body[1] # "true"

\* handleResumeEvent's debounce test on whole seconds.
Debounced(unixNow, last) == unixNow - last < debounceWindow

\* handleResumeEvent without time.Sleep(networkWakeupDelay): an accepted
\* event starts its refresh at once and the loop reads the next signal
ProcessSleepSignal_NoSleep ==
    /\ pc = "loop"
    /\ sigCh # <<>>
    /\ LET sgn == Head(sigCh) IN
       /\ sigCh' = Tail(sigCh)
       /\ IF IsResume(sgn.body) /\ ~Debounced(Unix(now), lastResumeUnix)
          THEN /\ lastResumeUnix' = Unix(now)
               /\ refreshes' = Append(refreshes, [body |-> sgn.body,
                                                  arrived |-> sgn.at,
                                                  accepted |-> now,
                                                  sub |-> nSubs,
                                                  started |-> now,
                                                  done |-> FALSE])
          ELSE UNCHANGED <<lastResumeUnix, refreshes>>
    /\ UNCHANGED <<now, cancelled, pc, wakeAt, conns, nSubs, sigClosed,
                   nSignals, cur,
                   notMonitor>>

\* case sgn, ok := <-sigCh with ok: processSleepSignal, handleResumeEvent up
\* to time.Sleep(networkWakeupDelay).
ProcessSleepSignal ==
    /\ pc = "loop"
    /\ sigCh # <<>>
    /\ now + networkWakeupDelay <= MaxClock
    /\ LET sgn == Head(sigCh) IN
       /\ sigCh' = Tail(sigCh)
       /\ IF IsResume(sgn.body) /\ ~Debounced(Unix(now), lastResumeUnix)
          THEN /\ lastResumeUnix' = Unix(now)
               /\ cur' = [body |-> sgn.body, arrived |-> sgn.at,
                          accepted |-> now, sub |-> nSubs]
               /\ pc' = "grace"
               /\ wakeAt' = now + networkWakeupDelay
          ELSE UNCHANGED <<lastResumeUnix, cur, pc, wakeAt>>
    /\ UNCHANGED <<now, cancelled, conns, nSubs, sigClosed, nSignals, refreshes,
                   notMonitor>>

\* handleResumeEvent that starts the refresh without the grace delay
StartFetchWeather_NoGrace ==
    /\ pc = "grace"
    /\ refreshes' = Append(refreshes, [body |-> cur.body,
                                       arrived |-> cur.arrived,
                                       accepted |-> cur.accepted,
                                       sub |-> cur.sub,
                                       started |-> now,
                                       done |-> FALSE])
    /\ cur' = NoEvent
    /\ pc' = "loop"
    /\ wakeAt' = 0
    /\ UNCHANGED <<now, cancelled, lastResumeUnix, conns, nSubs, sigCh,
                   sigClosed, nSignals,
                   notMonitor>>

\* time.Sleep(networkWakeupDelay) is over: go s.fetchWeather(ctx), return
\* to the signal loop. The refresh runs in a goroutine of its own.
StartFetchWeather ==
    /\ pc = "grace"
    /\ now >= wakeAt
    /\ refreshes' = Append(refreshes, [body |-> cur.body,
                                       arrived |-> cur.arrived,
                                       accepted |-> cur.accepted,
                                       sub |-> cur.sub,
                                       started |-> now,
                                       done |-> FALSE])
    /\ cur' = NoEvent
    /\ pc' = "loop"
    /\ wakeAt' = 0
    /\ UNCHANGED <<now, cancelled, lastResumeUnix, conns, nSubs, sigCh,
                   sigClosed, nSignals,
                   notMonitor>>

\* The goroutine of refresh i ends, whenever fetchWeather returns.
FetchWeatherDone(i) ==
    /\ i \in DOMAIN refreshes
    /\ ~refreshes[i].done
    /\ refreshes' = [refreshes EXCEPT ![i].done = TRUE]
    /\ UNCHANGED <<now, cancelled, pc, wakeAt, lastResumeUnix, conns, nSubs,
                   sigCh, sigClosed, nSignals, cur,
                   notMonitor>>

\* --------------------------------- monitorSleepResume, lines 41 to 53
\* the end of the loop body returning whether or not ctx is done
CleanupAndReturn ==
    /\ pc = "cleanup"
    /\ conns' = CloseConn(curConn)
    /\ sigCh' = <<>>
    /\ sigClosed' = FALSE
    /\ pc' = "returned"
    /\ UNCHANGED <<now, cancelled, wakeAt, lastResumeUnix, nSubs, nSignals,
                   cur, refreshes,
                   notMonitor>>

\* conn.RemoveSignal, conn.Close, then select ctx.Done / default.
CleanupAndReconnect ==
    /\ pc = "cleanup"
    /\ cancelled \/ now + reconnectDelay <= MaxClock
    /\ conns' = CloseConn(curConn)
    /\ sigCh' = <<>>
    /\ sigClosed' = FALSE
    /\ IF cancelled
       THEN pc' = "returned" /\ UNCHANGED wakeAt
       ELSE pc' = "reconnectSleep" /\ wakeAt' = now + reconnectDelay
    /\ UNCHANGED <<nSubs, now, cancelled, lastResumeUnix, nSignals, cur,
                   refreshes,
                   notMonitor>>

\* time.Sleep(reconnectDelay) is over: next iteration
ReconnectSleepDone ==
    /\ pc = "reconnectSleep"
    /\ now >= wakeAt
    /\ pc' = "connect"
    /\ wakeAt' = 0
    /\ UNCHANGED <<now, cancelled, lastResumeUnix, conns, nSubs, sigCh,
                   sigClosed, nSignals, cur, refreshes,
                   notMonitor>>

\* ==================================================== the providers
Providers == {"file", "geoip", "ichnaea"}

Keys == {"home", "work"}

\* NewGeolocationFileProvider, NewGeolocationGeoIPProvider,
\* NewGeolocationICHNAEAProvider: name, period, ttl
Name(p) == IF p = "file" THEN "GeolocationFile" ELSE "geoip"

Period(p) ==
    CASE p = "file" -> FilePeriod
      [] p = "geoip" -> GeoIPPeriod
      [] p = "ichnaea" -> ICHNAEAPeriod

TTL(p) ==
    CASE p = "file" -> FileTTL
      [] p = "geoip" -> GeoIPTTL
      [] p = "ichnaea" -> ICHNAEATTL

\* ----------------------------------------------------------- readFile
\* A file is missing or a sequence of lines. A line is blank, a number
\* ("1", "2"), text strconv.ParseFloat rejects ("x"), or text longer than
\* bufio.MaxScanTokenSize ("long"), at which scanner.Scan() returns false.
LineTexts == {"", "x", "1", "2", "long"}

RECURSIVE SeqsUpTo(_, _)
SeqsUpTo(S, n) ==
    IF n = 0 THEN {<<>>}
    ELSE LET shorter == SeqsUpTo(S, n - 1) IN
         shorter \cup {Append(q, x) : q \in {r \in shorter : Len(r) = n - 1},
                                       x \in S}

\* os.Open fails for a file that does not exist
Files ==
    {[exists |-> FALSE, lines |-> <<>>]}
    \cup {[exists |-> TRUE, lines |-> l] : l \in SeqsUpTo(LineTexts, MaxLines)}

\* strconv.ParseFloat(line, 64)
ParseFloat(line) ==
    CASE line = "1" -> [ok |-> TRUE, v |-> 1]
      [] line = "2" -> [ok |-> TRUE, v |-> 2]
      [] OTHER -> [ok |-> FALSE, v |-> 0]

ReadError == [err |-> TRUE, lat |-> 0, lon |-> 0, alt |-> 0, acc |-> 0,
              con |-> 0]

\* the scanner loop of readFile from line i on, values being those parsed
RECURSIVE ScanLines(_, _, _)
ScanLines(lines, i, values) ==
    IF i > Len(lines)
    THEN IF Len(values) < 4
         THEN ReadError
         ELSE [err |-> FALSE, lat |-> values[1], lon |-> values[2],
               alt |-> values[3], acc |-> values[4], con |-> 100]
    ELSE IF lines[i] = "long"
         THEN ScanLines(lines, Len(lines) + 1, values)
    ELSE IF lines[i] = ""
         THEN ScanLines(lines, i + 1, values)
         ELSE IF ~ParseFloat(lines[i]).ok
              THEN ReadError
              ELSE ScanLines(lines, i + 1,
                             Append(values, ParseFloat(lines[i]).v))

\* GeolocationFileProvider.readFile; con is the confidence createResult
\* gives a file reading (1.0)
readFile(f) ==
    IF ~f.exists THEN ReadError ELSE ScanLines(f.lines, 1, <<>>)

\* ------------------------------------------------------------- locate
\* What p.http.Get leaves in APIResult, or its error.
Coords == {1, 2}

Responses ==
    [err : {FALSE}, Latitude : Coords, Longitude : Coords,
     ZipCode : {"", "10115"}, City : {"", "Berlin"},
     RegionCode : {"", "BE"}, CountryCode : {"", "DE"}]
    \cup
    {[err |-> TRUE, Latitude |-> 0, Longitude |-> 0, ZipCode |-> "",
      City |-> "", RegionCode |-> "", CountryCode |-> ""]}

\* GeolocationGeoIPProvider.locate: four ifs in sequence, each overriding
\* acc and con
locateGeoIP(result) ==
    IF result.err THEN ReadError
    ELSE
      LET a0 == AccuarcyUnknown
          c0 == 10
          a1 == IF result.ZipCode # "" THEN AccuracyZip ELSE a0
          c1 == IF result.ZipCode # "" THEN 85 ELSE c0
          a2 == IF result.City # "" THEN AccuracyCity ELSE a1
          c2 == IF result.City # "" THEN 70 ELSE c1
          a3 == IF result.RegionCode # "" THEN AccuracyRegion ELSE a2
          c3 == IF result.RegionCode # "" THEN 50 ELSE c2
          a4 == IF result.CountryCode # "" THEN AccuracyCountry ELSE a3
          c4 == IF result.CountryCode # "" THEN 30 ELSE c3
      IN [err |-> FALSE, lat |-> result.Latitude, lon |-> result.Longitude,
          alt |-> 0, acc |-> a4, con |-> c4]

\* GeolocationICHNAEAProvider.locate: acc and con are the named results,
\* never assigned
locateICHNAEA(result) ==
    IF result.err THEN ReadError
    ELSE [err |-> FALSE, lat |-> result.Latitude, lon |-> result.Longitude,
          alt |-> 0, acc |-> 0, con |-> 0]

\* every outcome of readFile
FileReadings == {readFile(f) : f \in Files}

\* every reading a read of provider p can return
Readings(p) ==
    CASE p = "file" -> FileReadings
      [] p = "geoip" -> {locateGeoIP(r) : r \in Responses}
      [] p = "ichnaea" -> {locateICHNAEA(r) : r \in Responses}

\* --------------------------------------------------- GeolocationState
NoState == [have |-> FALSE, lat |-> 0, lon |-> 0, alt |-> 0, acc |-> 0]

HasChanged(st, lat, lon, alt, acc) ==
    \/ ~st.have
    \/ st.lat # lat
    \/ st.lon # lon
    \/ st.alt # alt
    \/ st.acc # acc

Update(st, lat, lon, alt, acc) ==
    [have |-> TRUE, lat |-> lat, lon |-> lon, alt |-> alt, acc |-> acc]

\* ------------------------------------------------------- createResult
NoResult == [Key |-> "", Lat |-> 0, Lon |-> 0, Alt |-> 0,
             AccuracyMeters |-> 0, Confidence |-> 0, Source |-> "",
             At |-> -1, TTL |-> 0]

\* a createResult that fills Key with the provider's name
createResult_NameAsKey(p, k, lat, lon, alt, acc, con, at) ==
    [Key |-> Name(p), Lat |-> lat, Lon |-> lon, Alt |-> alt,
     AccuracyMeters |-> acc, Confidence |-> con, Source |-> Name(p),
     At |-> at, TTL |-> TTL(p)]

createResult(p, k, lat, lon, alt, acc, con, at) ==
    [Key |-> k, Lat |-> lat, Lon |-> lon, Alt |-> alt,
     AccuracyMeters |-> acc, Confidence |-> con, Source |-> Name(p),
     At |-> at, TTL |-> TTL(p)]

\* ------------------------------------------------------- LookupStream
\* top of the loop: select ctx.Done / default
StreamTop ==
    /\ spc = "top"
    /\ IF sctx
       THEN spc' = "done" /\ outClosed' = TRUE
       ELSE spc' = "read" /\ UNCHANGED outClosed
    /\ UNCHANGED <<prov, key, minute, sctx, swake, state, out, received,
                   readLog,
                   notStream>>

\* readFile or locate returns an error, and the goroutine returns
StreamReadErr_Returns ==
    /\ spc = "read"
    /\ readLog' = Append(readLog, "err")
    /\ spc' = "done"
    /\ outClosed' = TRUE
    /\ UNCHANGED <<prov, key, minute, sctx, swake, state, out, received,
                   notStream>>

\* readFile or locate returns an error: time.Sleep(p.period); continue
StreamReadErr ==
    /\ spc = "read"
    /\ \E rd \in Readings(prov) : rd.err
    /\ readLog' = Append(readLog, "err")
    /\ spc' = "errSleep"
    /\ swake' = minute + Period(prov)
    /\ UNCHANGED <<prov, key, minute, sctx, state, out, outClosed,
                   received,
                   notStream>>

\* a successful read whose Result is built without state.Update
StreamReadOK_NoUpdate(rd) ==
    /\ spc = "read"
    /\ ~rd.err
    /\ IF HasChanged(state, rd.lat, rd.lon, rd.alt, rd.acc)
       THEN /\ out' = createResult(prov, key, rd.lat, rd.lon, rd.alt,
                                   rd.acc, rd.con, minute)
            /\ readLog' = Append(readLog, "changed")
            /\ spc' = "send"
            /\ UNCHANGED <<state, swake>>
       ELSE /\ readLog' = Append(readLog, "same")
            /\ spc' = "wait"
            /\ swake' = minute + Period(prov)
            /\ UNCHANGED <<state, out>>
    /\ UNCHANGED <<prov, key, minute, sctx, outClosed, received,
                   notStream>>

\* a loop that sends a Result for every successful read
StreamReadOK_AlwaysEmits(rd) ==
    /\ spc = "read"
    /\ ~rd.err
    /\ state' = Update(state, rd.lat, rd.lon, rd.alt, rd.acc)
    /\ out' = createResult(prov, key, rd.lat, rd.lon, rd.alt,
                           rd.acc, rd.con, minute)
    /\ readLog' = Append(readLog, "changed")
    /\ spc' = "send"
    /\ UNCHANGED <<prov, key, minute, sctx, swake, outClosed, received,
                   notStream>>

\* readFile or locate returns the reading rd: if state.HasChanged, then
\* state.Update and createResult and on to the send; else on to the wait
StreamReadOK(rd) ==
    /\ spc = "read"
    /\ ~rd.err
    /\ IF HasChanged(state, rd.lat, rd.lon, rd.alt, rd.acc)
       THEN /\ state' = Update(state, rd.lat, rd.lon, rd.alt, rd.acc)
            /\ out' = createResult(prov, key, rd.lat, rd.lon, rd.alt,
                                   rd.acc, rd.con, minute)
            /\ readLog' = Append(readLog, "changed")
            /\ spc' = "send"
            /\ UNCHANGED swake
       ELSE /\ readLog' = Append(readLog, "same")
            /\ spc' = "wait"
            /\ swake' = minute + Period(prov)
            /\ UNCHANGED <<state, out>>
    /\ UNCHANGED <<prov, key, minute, sctx, outClosed, received,
                   notStream>>

\* a send that does not watch ctx.Done: out <- r alone
StreamSendCancelled_NoRace ==
    /\ FALSE
    /\ UNCHANGED vars

\* select ctx.Done / out <- r: case <-ctx.Done(): return
StreamSendCancelled ==
    /\ spc = "send"
    /\ sctx
    /\ spc' = "done"
    /\ out' = NoResult
    /\ outClosed' = TRUE
    /\ UNCHANGED <<prov, key, minute, sctx, swake, state, received,
                   readLog,
                   notStream>>

\* a send after which the goroutine still holds r and sends it again
StreamSend_Redelivers ==
    /\ spc = "send"
    /\ received' = out
    /\ UNCHANGED <<prov, key, minute, sctx, spc, swake, state, out,
                   outClosed, readLog,
                   notStream>>

\* select ctx.Done / out <- r: case out <- r, the consumer receiving
StreamSend ==
    /\ spc = "send"
    /\ received' = out
    /\ out' = NoResult
    /\ spc' = "wait"
    /\ swake' = minute + Period(prov)
    /\ UNCHANGED <<prov, key, minute, sctx, state, outClosed, readLog,
                   notStream>>

\* select ctx.Done / time.After(p.period): case <-ctx.Done(): return
StreamWaitCancelled ==
    /\ spc = "wait"
    /\ sctx
    /\ spc' = "done"
    /\ swake' = 0
    /\ outClosed' = TRUE
    /\ UNCHANGED <<prov, key, minute, sctx, state, out, received, readLog,
                   notStream>>

\* select ctx.Done / time.After(p.period): case <-time.After(p.period)
StreamWaitOver ==
    /\ spc = "wait"
    /\ minute >= swake
    /\ spc' = "top"
    /\ swake' = 0
    /\ UNCHANGED <<prov, key, minute, sctx, state, out, outClosed,
                   received, readLog,
                   notStream>>

\* time.Sleep(p.period) after a failed read is over: continue
StreamSleepOver ==
    /\ spc = "errSleep"
    /\ minute >= swake
    /\ spc' = "top"
    /\ swake' = 0
    /\ UNCHANGED <<prov, key, minute, sctx, state, out, outClosed,
                   received, readLog,
                   notStream>>

\* the steps the LookupStream goroutine takes on its own
StreamStep ==
    \/ StreamTop
    \/ StreamReadErr
    \/ (spc = "read" /\ \E rd \in Readings(prov) : StreamReadOK(rd))
    \/ StreamSendCancelled
    \/ StreamWaitCancelled
    \/ StreamWaitOver
    \/ StreamSleepOver

\* cancel() of the context handed to LookupStream
StreamCancel ==
    /\ ~sctx
    /\ sctx' = TRUE
    /\ UNCHANGED <<prov, key, minute, spc, swake, state, out, outClosed,
                   received, readLog,
                   notStream>>

\* The stream clock moves in steps of Quantum(p) minutes.
Quantum(p) == IF p = "file" THEN FileQuantum ELSE IPQuantum

\* Time passes; a goroutine that can take a step takes it first.
StreamTick ==
    /\ minute < MaxPeriods * Period(prov)
    /\ spc # "done"
    /\ ~ENABLED StreamStep
    /\ minute' = minute + Quantum(prov)
    /\ UNCHANGED <<prov, key, sctx, spc, swake, state, out, outClosed,
                   received, readLog,
                   notStream>>

\* ------------------------------------------------------ specifications
MonitorInit ==
    /\ now = 0
    /\ cancelled = FALSE
    /\ pc = "connect"
    /\ wakeAt = 0
    /\ lastResumeUnix = 0
    /\ conns = <<>>
    /\ nSubs = 0
    /\ sigCh = <<>>
    /\ sigClosed = FALSE
    /\ nSignals = 0
    /\ cur = NoEvent
    /\ refreshes = <<>>

\* LookupStream(ctx, key) of provider p has just started its goroutine
StreamStart(p, k) ==
    /\ prov = p
    /\ key = k
    /\ minute = 0
    /\ sctx = FALSE
    /\ spc = "top"
    /\ swake = 0
    /\ state = NoState
    /\ out = NoResult
    /\ outClosed = FALSE
    /\ received = NoResult
    /\ readLog = <<>>

NoResponse == [err |-> TRUE, Latitude |-> 0, Longitude |-> 0, ZipCode |-> "",
               City |-> "", RegionCode |-> "", CountryCode |-> ""]

NotLocated == [by |-> "none", err |-> TRUE, lat |-> 0, lon |-> 0, alt |-> 0,
               acc |-> 0, con |-> 0]

\* no stream runs
StreamIdle ==
    /\ prov = "file"
    /\ key = "home"
    /\ minute = 0
    /\ sctx = FALSE
    /\ spc = "idle"
    /\ swake = 0
    /\ state = NoState
    /\ out = NoResult
    /\ outClosed = FALSE
    /\ received = NoResult
    /\ readLog = <<>>

LocateIdle ==
    /\ apiResp = NoResponse
    /\ located = NotLocated

NoFile == [exists |-> FALSE, lines |-> <<>>]

NotRead == [by |-> "none", err |-> TRUE, lat |-> 0, lon |-> 0, alt |-> 0,
            acc |-> 0, con |-> 0]

ParseIdle ==
    /\ file = NoFile
    /\ fileRead = NotRead

NeverRead == [got |-> "none", due |-> FALSE]

HubIdle ==
    /\ estimate = NoResult
    /\ published = NoResult
    /\ sweepDue = FALSE
    /\ merged = NoResult
    /\ readout = NeverRead
    /\ inbox = <<>>
    /\ fed = 0

MonitorStep ==
    \/ ConnectSystemBusOK
    \/ ConnectSystemBusErr
    \/ ConnectRetry
    \/ ConnectCancelled
    \/ AddMatchSignalOK
    \/ AddMatchSignalErr
    \/ SetupRetry
    \/ SetupCancelled
    \/ SignalLoopCancelled
    \/ SignalChannelClosed
    \/ ProcessSleepSignal
    \/ StartFetchWeather
    \/ CleanupAndReconnect
    \/ ReconnectSleepDone

GoroutineStep ==
    \/ MonitorStep
    \/ \E c \in 1..MaxConns : ConnCloser(c)

\* Time passes. The goroutines are fast against a tick: one that can take a
\* step takes it before the clock moves on (timers and sleeps end on time).
Tick ==
    /\ now < MaxClock
    /\ pc # "returned"
    /\ ~ENABLED GoroutineStep
    /\ now' = now + 1
    /\ UNCHANGED <<cancelled, pc, wakeAt, lastResumeUnix, conns, nSubs, sigCh,
                   sigClosed, nSignals, cur, refreshes,
                   notMonitor>>

\* The sleep/resume monitor.
Init == MonitorInit /\ StreamIdle /\ LocateIdle /\ ParseIdle /\ HubIdle

Next ==
    \/ Tick
    \/ Cancel
    \/ \E body \in Bodies : DeliverSignal(body)
    \/ BusDrop
    \/ MonitorStep
    \/ \E c \in 1..MaxConns : ConnCloser(c)
    \/ \E i \in 1..MaxSignals : FetchWeatherDone(i)

Spec == Init /\ [][Next]_vars

\* The Go scheduler runs every goroutine that can run, and time passes.
FairSpec ==
    /\ Spec
    /\ WF_vars(MonitorStep)
    /\ \A c \in 1..MaxConns : WF_vars(ConnCloser(c))
    /\ WF_vars(Tick)

\* One LookupStream call of one provider, its consumer and its context.
MonitorIdle ==
    /\ now = 0
    /\ cancelled = FALSE
    /\ pc = "idle"
    /\ wakeAt = 0
    /\ lastResumeUnix = 0
    /\ conns = <<>>
    /\ nSubs = 0
    /\ sigCh = <<>>
    /\ sigClosed = FALSE
    /\ nSignals = 0
    /\ cur = NoEvent
    /\ refreshes = <<>>

StreamInit ==
    /\ MonitorIdle
    /\ LocateIdle
    /\ ParseIdle
    /\ HubIdle
    /\ \E p \in Providers, k \in Keys : StreamStart(p, k)

StreamNext ==
    \/ StreamStep
    \/ StreamSend
    \/ StreamCancel
    \/ StreamTick

StreamSpec == StreamInit /\ [][StreamNext]_vars

\* The LookupStream goroutine runs when it can; nothing makes the consumer
\* receive.
FairStreamSpec ==
    /\ StreamSpec
    /\ WF_vars(StreamStep)

\* locate applied once to one API response.
LocateInit ==
    /\ MonitorIdle
    /\ StreamIdle
    /\ ParseIdle
    /\ HubIdle
    /\ apiResp \in Responses
    /\ located = NotLocated

LocateGeoIP ==
    /\ located.by = "none"
    /\ located' = [by |-> "geoip"] @@ locateGeoIP(apiResp)
    /\ UNCHANGED <<apiResp, notLocate>>

LocateICHNAEA ==
    /\ located.by = "none"
    /\ located' = [by |-> "ichnaea"] @@ locateICHNAEA(apiResp)
    /\ UNCHANGED <<apiResp, notLocate>>

LocateNext ==
    \/ LocateGeoIP
    \/ LocateICHNAEA

LocateSpec == LocateInit /\ [][LocateNext]_vars

\* readFile applied once to one file.
ReadFileInit ==
    /\ MonitorIdle
    /\ StreamIdle
    /\ LocateIdle
    /\ HubIdle
    /\ file \in Files
    /\ fileRead = NotRead

ReadFile ==
    /\ fileRead.by = "none"
    /\ fileRead' = [by |-> "readFile"] @@ readFile(file)
    /\ UNCHANGED <<file, notParse>>

ReadFileNext == ReadFile

ReadFileSpec == ReadFileInit /\ [][ReadFileNext]_vars

\* ----------------------------------------------------------- Fusion Hub
\* The Hub is described in section 4.2 of the specification; its code is
\* not among the sources. NoResult stands for the unknown estimate.

\* a Result is stale once its expiry, At + TTL, has passed
Expired(r, t) == t >= r.At + r.TTL

\* rules (a) to (c): higher Confidence, then smaller AccuracyMeters, then
\* the more recent At
Better(a, b) ==
    \/ a.Confidence > b.Confidence
    \/ a.Confidence = b.Confidence /\ a.AccuracyMeters < b.AccuracyMeters
    \/ a.Confidence = b.Confidence /\ a.AccuracyMeters = b.AccuracyMeters
       /\ a.At > b.At

\* a Hub in which the Result that arrived last always wins
Select_LastWins(est, r, t) == r

\* The selection rule: the estimate after Result r arrived at time t while
\* est was the estimate. A stale r is excluded from selection; (e) an
\* expired estimate loses; (d) a Result replaces the one of its own Source;
\* otherwise (a) to (c) decide.
Select(est, r, t) ==
    IF Expired(r, t) THEN est
    ELSE IF est = NoResult THEN r
    ELSE IF Expired(est, t) THEN r
    ELSE IF r.Source = est.Source THEN r
    ELSE IF Better(r, est) THEN r
    ELSE est

\* the key of the subscription
HubKey == "home"

\* the Results the registered providers can produce for the key at time 0
HubInputs ==
    UNION {{createResult(p, HubKey, rd.lat, rd.lon, rd.alt, rd.acc, rd.con,
                         0) : rd \in {x \in Readings(p) : ~x.err}}
           : p \in Providers}

\* Step 3 of the merge loop for a Result that arrives from any provider:
\* the winner becomes the estimate and, if it changed, is republished.
HubFeed ==
    /\ fed < Len(inbox)
    /\ LET e == Select(estimate, inbox[fed + 1], minute) IN
       /\ estimate' = e
       /\ published' = IF e # estimate THEN e ELSE published
    /\ fed' = fed + 1
    /\ UNCHANGED <<sweepDue, merged, readout, inbox, streamVars, notHub>>

\* Two Results arrive at a Hub that knows nothing yet, in either order.
HubFeedInit ==
    /\ MonitorIdle
    /\ StreamIdle
    /\ LocateIdle
    /\ ParseIdle
    /\ estimate = NoResult
    /\ published = NoResult
    /\ sweepDue = FALSE
    /\ merged = NoResult
    /\ readout = NeverRead
    /\ inbox \in {<<a, b>> : a, b \in HubInputs}
    /\ fed = 0

HubFeedNext == HubFeed

HubFeedSpec == HubFeedInit /\ [][HubFeedNext]_vars

\* One provider stream feeding the Hub of a subscription. The stream clock
\* is the Hub's clock; the sweep timer fires once per step of the clock.

\* Step 3 of the merge loop for the Result received from the stream.
HubMerge ==
    /\ ~sctx
    /\ received # NoResult
    /\ received # merged
    /\ LET e == Select(estimate, received, minute) IN
       /\ estimate' = e
       /\ published' = IF e # estimate THEN e ELSE published
    /\ merged' = received
    /\ UNCHANGED <<sweepDue, readout, inbox, fed, streamVars, notHub>>

\* Step 4 of the merge loop: on the TTL-sweep timer an estimate whose
\* expiry has passed is cleared and republished as unknown.
HubSweep ==
    /\ ~sctx
    /\ sweepDue
    /\ sweepDue' = FALSE
    /\ IF estimate # NoResult /\ Expired(estimate, minute)
       THEN estimate' = NoResult /\ published' = NoResult
       ELSE UNCHANGED <<estimate, published>>
    /\ UNCHANGED <<merged, readout, inbox, fed, streamVars, notHub>>

\* what a snapshot of the estimate taken at time t holds
Snapshotted(est, t) ==
    IF est = NoResult THEN "unknown"
    ELSE IF Expired(est, t) THEN "stale"
    ELSE "fresh"

\* CurrentEstimate(key): a reader takes a snapshot of the estimate.
CurrentEstimate ==
    /\ ~sctx
    /\ readout' = [got |-> Snapshotted(estimate, minute), due |-> sweepDue]
    /\ readout' # readout
    /\ UNCHANGED <<estimate, published, sweepDue, merged, inbox, fed,
                   streamVars, notHub>>

\* Time passes for the stream and the Hub, and the sweep timer fires; the
\* goroutines that can take a step take it first, the merge loop receiving
\* a Result the stream is sending.
HubTick ==
    /\ minute < MaxPeriods * Period(prov)
    /\ spc # "done"
    /\ ~ENABLED StreamStep
    /\ ~ENABLED StreamSend
    /\ ~ENABLED HubMerge
    /\ ~ENABLED HubSweep
    /\ minute' = minute + Quantum(prov)
    /\ sweepDue' = ~sctx
    /\ UNCHANGED <<prov, key, sctx, spc, swake, state, out, outClosed,
                   received, readLog,
                   estimate, published, merged, readout, inbox, fed,
                   notHub>>

HubInit ==
    /\ MonitorIdle
    /\ LocateIdle
    /\ ParseIdle
    /\ HubIdle
    /\ \E p \in Providers : StreamStart(p, HubKey)

\* The subscription's context is not cancelled in these runs.
HubNext ==
    \/ StreamTop
    \/ StreamReadErr
    \/ (spc = "read" /\ \E rd \in Readings(prov) : StreamReadOK(rd))
    \/ StreamWaitOver
    \/ StreamSleepOver
    \/ StreamSend
    \/ HubMerge
    \/ HubSweep
    \/ CurrentEstimate
    \/ HubTick

HubSpec == HubInit /\ [][HubNext]_vars

\* The merge loop and the provider goroutine run when they can.
FairHubSpec ==
    /\ HubSpec
    /\ WF_vars(HubSweep)
    /\ WF_vars(HubMerge)
    /\ WF_vars(StreamStep)

\* ====================================================== the claims
DebounceTicks == debounceWindow * TicksPerSecond

\* C1: of two resume signals that arrive one after the other less than the
\* debounce window (2 s, so also 500 ms) apart on one subscription, only one
\* leads to a fetchWeather call.
C1_DebounceByArrival ==
    \A i, j \in DOMAIN refreshes :
        (/\ i < j
         /\ refreshes[i].sub = refreshes[j].sub
         /\ refreshes[i].arrived < refreshes[j].arrived)
            => refreshes[j].arrived - refreshes[i].arrived >= DebounceTicks

\* The accuracy and confidence of the most specific field the response
\* populates: zip code, then city, then region, then country.
MostSpecific(result) ==
    CASE result.ZipCode # "" -> <<AccuracyZip, 85>>
      [] result.ZipCode = "" /\ result.City # "" -> <<AccuracyCity, 70>>
      [] result.ZipCode = "" /\ result.City = "" /\ result.RegionCode # ""
            -> <<AccuracyRegion, 50>>
      [] result.ZipCode = "" /\ result.City = "" /\ result.RegionCode = ""
         /\ result.CountryCode # "" -> <<AccuracyCountry, 30>>
      [] OTHER -> <<AccuarcyUnknown, 10>>

\* C2: for every response, GeolocationGeoIPProvider.locate returns the
\* accuracy and confidence of the most specific populated field.
C2_MostSpecificFieldWins ==
    (located.by = "geoip" /\ ~located.err)
        => <<located.acc, located.con>> = MostSpecific(apiResp)

\* C3: the output channel is closed only if the context is cancelled; a
\* failed read leaves the channel open, sends nothing, and after the polling
\* period the loop is back at its top, from where it reads again unless the
\* context is cancelled.
C3_StreamNeverEndsOnItsOwn ==
    /\ [](outClosed => sctx)
    /\ [](spc = "errSleep" => (~outClosed /\ out = NoResult))
    /\ [][ /\ (spc = "read" /\ spc' = "errSleep")
                 => (out' = out /\ received' = received /\ ~outClosed')
           /\ (spc = "errSleep" /\ spc' # spc)
                 => (spc' = "top" /\ minute >= swake)
           /\ (spc = "top" /\ spc' # spc /\ ~sctx) => spc' = "read" ]_vars

\* C3 witness: after two failed reads in a row the stream is open and reads
\* a third time.
C3_Witness ==
    /\ readLog = <<"err", "err">>
    /\ spc = "read"
    /\ ~outClosed
    /\ received = NoResult

\* the stream goroutine takes a step that closes the output channel
StreamEnds == StreamStep /\ outClosed'

\* C4: whenever the stream waits between two polls, after a failed read
\* too, and the context is cancelled, the stream can end at once, before
\* the polling period is over.
C4_WaitsAreInterruptible ==
    (sctx /\ spc \in {"wait", "errSleep"} /\ minute < swake)
        => ENABLED StreamEnds

\* C5: a stream blocked in its send under a cancelled context closes its
\* output channel, whether or not the consumer ever receives.
C5_SendRacesCancellation == (spc = "send" /\ sctx) ~> outClosed

\* C5 witness: the first Result is being sent, nobody has received anything
\* and the context is cancelled.
C5_Witness == spc = "send" /\ sctx /\ received = NoResult /\ ~outClosed

Fields(r) == <<r.Lat, r.Lon, r.Alt, r.AccuracyMeters>>

Snapshot(st) == <<st.lat, st.lon, st.alt, st.acc>>

\* C6: a Result being sent differs from the Result received before it in
\* lat, lon, alt or accuracy, so two Results received one after the other
\* differ; a read that returns the snapshot's values sends nothing; a failed
\* read leaves the snapshot as it is; the snapshot is that of the Result
\* emitted last.
C6_ChangeSuppression ==
    /\ []((out # NoResult /\ received # NoResult)
             => Fields(out) # Fields(received))
    /\ []((spc # "done" /\ state.have)
             => Snapshot(state)
                  = Fields(IF out # NoResult THEN out ELSE received))
    /\ [][ /\ (received' # received /\ received # NoResult)
                 => Fields(received') # Fields(received)
           /\ (spc = "read" /\ spc' = "errSleep") => state' = state
           /\ (spc = "read" /\ spc' = "wait")
                 => (out' = NoResult /\ received' = received
                     /\ state' = state) ]_vars

\* C6 witness: a Result was received, the next read failed, and the read
\* after it returned the same values and sent nothing.
C6_Witness ==
    /\ readLog = <<"changed", "err", "same">>
    /\ spc = "wait"
    /\ out = NoResult
    /\ received # NoResult

\* C7: monitorSleepResume has returned only if the context is cancelled, and
\* every wait that follows a failure (connect error, registration error, end
\* of the signal loop) leads to the next connection attempt or, under
\* cancellation only, to the return.
C7_ReturnsOnlyWhenCancelled ==
    /\ [](pc = "returned" => cancelled)
    /\ [][ /\ (pc = "connect" /\ pc' # pc) => pc' \in {"setup", "connectWait"}
           /\ (pc = "connectWait" /\ pc' # pc)
                 => (pc' = "connect" \/ (cancelled /\ pc' = "returned"))
           /\ (pc = "setup" /\ pc' # pc) => pc' \in {"loop", "setupWait"}
           /\ (pc = "setupWait" /\ pc' # pc) => pc' = "connect"
           /\ (pc = "cleanup" /\ pc' # pc)
                 => (pc' = "reconnectSleep" \/ (cancelled /\ pc' = "returned"))
           /\ (pc = "reconnectSleep" /\ pc' # pc) => pc' = "connect" ]_vars

\* C7 witness: the monitor subscribed, lost the signal channel, connected and
\* subscribed again, and returned after the cancellation.
C7_Witness == pc = "returned" /\ cancelled /\ nSubs >= 2

\* C8: once the context is cancelled, monitorSleepResume eventually returns.
C8_CancelLeadsToReturn == cancelled ~> (pc = "returned")

\* C9: whenever the monitor holds no connection it still works with (before
\* a connection attempt, in a retry delay, after its return), Close has been
\* called on every connection opened so far; and once the context is
\* cancelled and every cleanup goroutine has run, no connection is unclosed.
C9_NoConnectionLeak ==
    /\ pc \in {"connect", "connectWait", "setupWait", "reconnectSleep",
               "returned"}
          => \A c \in DOMAIN conns : conns[c].closed
    /\ (cancelled /\ \A c \in DOMAIN conns : conns[c].closer = "done")
          => \A c \in DOMAIN conns : conns[c].closed

\* C9 witness: a registration failed, the context was cancelled, the monitor
\* returned and the cleanup goroutines have run.
C9_Witness ==
    /\ pc = "returned"
    /\ cancelled
    /\ nSubs = 0
    /\ conns # <<>>
    /\ \A c \in DOMAIN conns : Settled(conns[c])

\* C10: taking a signal whose body is not exactly one boolean false from the
\* channel changes neither lastResumeUnix nor the refreshes and starts no
\* grace delay; every refresh started was triggered by a resume signal.
C10_SignalFiltering ==
    /\ [](\A i \in DOMAIN refreshes : refreshes[i].body = <<"false">>)
    /\ [](pc = "grace" => cur.body = <<"false">>)
    /\ [][ (pc = "loop" /\ sigCh # <<>> /\ sigCh' = Tail(sigCh)
            /\ Head(sigCh).body # <<"false">>)
           => (lastResumeUnix' = lastResumeUnix /\ refreshes' = refreshes
               /\ cur' = cur /\ pc' = "loop") ]_vars

\* C10 witness: of two signals taken from the channel of the first
\* subscription, one was ignored and the other led to a refresh.
C10_Witness ==
    /\ nSubs = 1
    /\ pc = "loop"
    /\ nSignals = 2
    /\ sigCh = <<>>
    /\ Len(refreshes) = 1

\* C11: every refresh starts at least the grace period (5 s) after its
\* resume event was accepted; the grace delay of an accepted event ends in
\* exactly one step, which starts exactly one refresh for that event and
\* puts the monitor back into the signal loop without waiting for the
\* refresh; refreshes start in no other step; and in the signal loop a
\* pending signal can be processed whether or not refreshes are running.
C11_GraceThenFireAndForget ==
    /\ [](\A i \in DOMAIN refreshes :
            refreshes[i].started - refreshes[i].accepted
                >= networkWakeupDelay)
    /\ [](\A i, j \in DOMAIN refreshes :
            i < j => refreshes[i].accepted < refreshes[j].accepted)
    /\ []((pc = "loop" /\ sigCh # <<>>
           /\ now + networkWakeupDelay <= MaxClock)
             => ENABLED ProcessSleepSignal)
    /\ [][ /\ (pc = "grace" /\ pc' # pc)
                 => /\ pc' = "loop"
                    /\ refreshes'
                         = Append(refreshes,
                                  [body |-> cur.body,
                                   arrived |-> cur.arrived,
                                   accepted |-> cur.accepted,
                                   sub |-> cur.sub,
                                   started |-> now,
                                   done |-> FALSE])
           /\ Len(refreshes') # Len(refreshes) => pc = "grace"
           /\ (pc = "loop" /\ pc' = "grace")
                 => (cur'.accepted = now /\ refreshes' = refreshes) ]_vars

\* C11 witness: the refresh of the first resume event is still running
\* while the monitor, back in the signal loop, has accepted the next one.
C11_Witness ==
    /\ Len(refreshes) = 1
    /\ ~refreshes[1].done
    /\ refreshes[1].started
          = refreshes[1].accepted + networkWakeupDelay
    /\ pc = "grace"
    /\ cur.accepted >= refreshes[1].started

\* the non-blank lines of a file, in order
NonBlank(lines) == SelectSeq(lines, LAMBDA l : l # "")

\* a line holding a valid number
IsNumber(l) == l \in {"1", "2"}

\* the files for which a read error is due: not to be opened, a non-blank
\* line that is no number, or fewer than four non-blank lines
MustFail(f) ==
    \/ ~f.exists
    \/ \E i \in DOMAIN f.lines : f.lines[i] # "" /\ ~IsNumber(f.lines[i])
    \/ Len(NonBlank(f.lines)) < 4

\* C12: readFile returns an error exactly for the files that cannot be
\* opened, hold a non-blank line that is no number, or hold fewer than four
\* non-blank lines; otherwise it returns the first four non-blank values as
\* latitude, longitude, altitude, accuracy.
C12_ReadFileParsing ==
    fileRead.by = "readFile"
        => /\ fileRead.err <=> MustFail(file)
           /\ ~fileRead.err
                 => LET v == NonBlank(file.lines) IN
                    <<fileRead.lat, fileRead.lon, fileRead.alt, fileRead.acc>>
                        = <<ParseFloat(v[1]).v, ParseFloat(v[2]).v,
                            ParseFloat(v[3]).v, ParseFloat(v[4]).v>>

\* C13: the consumer receives a Result only from the goroutine's pending
\* send, which that ends (no Result is delivered twice); a Result received
\* is stamped no earlier than the one received before it; a Result is
\* pending only while the goroutine is in its send, and a new Result is
\* created, stamped with the current time, only when none is pending.
C13_PerProviderOrdering ==
    /\ [](out # NoResult => spc = "send")
    /\ []((out # NoResult /\ received # NoResult)
             => out.At >= received.At)
    /\ [][ /\ received' # received
                 => /\ spc = "send"
                    /\ received' = out
                    /\ out' = NoResult
                    /\ spc' # "send"
                    /\ received # NoResult => received'.At >= received.At
           /\ (out' # out /\ out' # NoResult)
                 => (out = NoResult /\ out'.At = minute) ]_vars

\* C13 witness: a second Result, stamped a polling period after the first,
\* has been received.
C13_Witness ==
    /\ readLog = <<"changed", "changed">>
    /\ spc = "wait"
    /\ received # NoResult
    /\ received.At >= Period(prov)

\* Confidence is kept in hundredths: 100 stands for 1.0.
WellFormed(r) ==
    /\ r.Key = key
    /\ r.Source = Name(prov)
    /\ r.TTL = TTL(prov)
    /\ r.Confidence >= 0
    /\ r.Confidence <= 100
    /\ prov = "file" => r.Confidence = 100
    /\ prov # "file" => r.Alt = 0

\* C14: every Result a stream sends or has delivered carries the key of its
\* LookupStream call, the provider's name as Source, the provider's TTL and
\* a Confidence within [0,1]; a file Result has Confidence 1.0, a Result of
\* an IP provider Alt 0.
C14_ResultWellFormed ==
    /\ out # NoResult => WellFormed(out)
    /\ received # NoResult => WellFormed(received)

\* C14 witness: the GeoIP provider, called with key "work", has delivered a
\* Result of country-level confidence.
C14_Witness ==
    /\ prov = "geoip"
    /\ key = "work"
    /\ received # NoResult
    /\ received.Confidence = 30
    /\ received.Source = "geoip"

\* of the two Results of the inbox, the one of higher Confidence
HigherConfidence ==
    IF inbox[1].Confidence > inbox[2].Confidence THEN inbox[1] ELSE inbox[2]

\* C15 as stated: once two Results of distinct Confidence have arrived, in
\* whichever order and whatever their Sources, the estimate is the one of
\* higher Confidence.
C15_HigherConfidenceWins ==
    (fed = 2 /\ inbox[1].Confidence # inbox[2].Confidence)
        => estimate = HigherConfidence

\* C15 amended: once two Results of distinct Confidence and of different
\* Sources have arrived, in whichever order, the estimate is the one of
\* higher Confidence.
C15_HigherConfidenceWinsAcrossSources ==
    (fed = 2 /\ inbox[1].Confidence # inbox[2].Confidence
     /\ inbox[1].Source # inbox[2].Source)
        => estimate = HigherConfidence

\* C15 witness: a file Result arrived first, a GeoIP Result of lower
\* Confidence after it, and the file Result is the estimate.
C15_Witness ==
    /\ fed = 2
    /\ inbox[1].Source = "GeolocationFile"
    /\ inbox[2].Source = "geoip"
    /\ inbox[2].Confidence = 85
    /\ estimate = inbox[1]

\* the estimate is a Result whose expiry has passed
StaleEstimate == estimate # NoResult /\ Expired(estimate, minute)

\* the estimate is unknown and that was republished, or a new Result has
\* replaced the stale one
StaleEstimateGone ==
    \/ estimate = NoResult /\ published = NoResult
    \/ estimate # NoResult /\ ~Expired(estimate, minute)

\* a successful read sends a Result only if the reading differs from the
\* snapshot, so an unchanged reading never refreshes the estimate
NoRefreshOfUnchanged ==
    (spc = "read" /\ out' # NoResult)
        => (~state.have \/ Fields(out') # Snapshot(state))

C17_MonitorWaitsAreInterruptible ==
    (/\ cancelled
     /\ pc \in {"connectWait", "setupWait", "reconnectSleep", "grace"}
     /\ now < wakeAt)
        => ENABLED MonitorStep

\* The times at which resume events were accepted, in order: those of the
\* refreshes started so far, then that of the event in its grace delay.
AcceptedAt ==
    [i \in DOMAIN refreshes |-> refreshes[i].accepted]
        \o (IF cur = NoEvent THEN <<>> ELSE <<cur.accepted>>)

\* C18: any two resume events accepted one after the other are accepted
\* at least the debounce window (2 s) of elapsed time apart; the stored
\* last-action timestamp never decreases and is the whole second of the
\* latest acceptance; and a resume event read while no event has been
\* accepted yet is accepted.
C18_DebounceByAcceptance ==
    /\ [](\A i \in 1..(Len(AcceptedAt) - 1) :
            AcceptedAt[i + 1] - AcceptedAt[i]
                >= debounceWindow * TicksPerSecond)
    /\ [](AcceptedAt # <<>>
            => lastResumeUnix = Unix(AcceptedAt[Len(AcceptedAt)]))
    /\ [][ /\ lastResumeUnix' >= lastResumeUnix
           /\ (/\ pc = "loop"
               /\ sigCh # <<>>
               /\ sigCh' = Tail(sigCh)
               /\ IsResume(Head(sigCh).body)
               /\ AcceptedAt = <<>>)
                 => (AcceptedAt' = <<now>> /\ lastResumeUnix' = Unix(now)) ]_vars

\* Two resume events were accepted in one run, the second one after the
\* first one's grace delay.
C18_Witness ==
    /\ Len(AcceptedAt) = 2
    /\ lastResumeUnix = Unix(AcceptedAt[2])
    /\ AcceptedAt[2] > AcceptedAt[1]

\* C19: for every response of a successful lookup the two IP providers'
\* locate return the same accuracy and confidence, and neither returns
\* accuracy 0 or confidence 0.
C19_ProvidersRateAlike ==
    (located.by \in {"geoip", "ichnaea"} /\ ~located.err)
        => /\ located.acc = locateGeoIP(apiResp).acc
           /\ located.acc = locateICHNAEA(apiResp).acc
           /\ located.con = locateGeoIP(apiResp).con
           /\ located.con = locateICHNAEA(apiResp).con
           /\ located.acc # 0
           /\ located.con # 0

\* C20: once the context is cancelled the monitor makes no further call
\* of dbus.ConnectSystemBus, neither a successful nor a failing one.
C20_NoConnectAfterCancel ==
    [][(cancelled /\ pc = "connect") => pc' \notin {"setup", "connectWait"}]_vars

\* C21: once the context is cancelled no step of the monitor starts a
\* refresh: neither for a signal that was pending in the channel nor for an
\* event whose grace delay was in progress at the cancellation.
C21_NoRefreshAfterCancel ==
    [][cancelled => Len(refreshes') = Len(refreshes)]_vars

\* The connections on which Close has not been called yet.
Unclosed == {c \in DOMAIN conns : ~conns[c].closed}

\* C22: at any time at most one of the connections opened so far has not
\* had Close called, and it is the one opened last; whenever the monitor
\* is about to connect, every earlier connection has been closed.
C22_AtMostOneOpenConnection ==
    /\ Cardinality(Unclosed) <= 1
    /\ Unclosed \subseteq {curConn}
    /\ pc = "connect" => Unclosed = {}

\* A second connection is open after the first one was closed.
C22_Witness ==
    /\ Len(conns) = 2
    /\ conns[1].closed
    /\ Unclosed = {2}
    /\ pc = "loop"

\* The providers whose name is the Source of Result r.
ProvidersNamed(r) == {p \in Providers : Name(p) = r.Source}

\* C23: the Source of every Result received from a provider's stream is
\* the name of that provider and of no other provider, so that two Results
\* of equal Source come from one provider.
C23_SourceIdentifiesProvider ==
    received # NoResult => ProvidersNamed(received) = {prov}

====
